---- MODULE Spec2Model ----
(***************************************************************************)
(* Hex Map Explorer: the travel ledger (travel/system.py), the hex map     *)
(* (core/map.py, core/hex.py) and the description generation manager       *)
(* (generation/manager.py).                                                *)
(*                                                                         *)
(* Numbers.  The program computes with Python floats; the model computes   *)
(* with exact fractions on fixed grids:                                    *)
(*   movement costs and movement_points in units of 1/80 (terrain costs    *)
(*     are multiples of 1/2, transport modifiers and their halves are      *)
(*     multiples of 1/40),                                                 *)
(*   supplies in units of 1/10,                                            *)
(*   hours_traveled as a reduced fraction [n, d].                          *)
(* The one place where the rounding of doubles is modelled is the          *)
(* rescaling that load_from_data ends with: movement_drift is the distance *)
(* of the double movement_points from the exact movement_points, in halves *)
(* of a unit in the last place; the operations that compute exactly leave  *)
(* it 0.                                                                   *)
(***************************************************************************)
EXTENDS Integers, Sequences, FiniteSets, TLC

VARIABLES
    travel_system,     \* HexMap.travel_system: the TravelSystem's fields
    hexes,             \* HexMap.hexes: coordinate -> Hex
    current_position,  \* HexMap.current_position
    gen_manager,       \* HexMap.gen_manager: the GenerationManager's fields
    threads,           \* the worker threads started so far, in order of creation
    main_pc,           \* where the caller's thread is: "idle", or "join" inside cancel()
    ret,               \* the last call: its name, argument (of a call on the ledger),
                       \* return value and message
    calls,             \* number of calls made so far
    json_file          \* the versions of the file that save_to_json wrote, each
                       \* a map_data; load_from_json reads the last one

vars == <<travel_system, hexes, current_position, gen_manager, threads, main_pc, ret, calls,
          json_file>>

(***************************************************************************)
(* Bounds of the model.                                                    *)
(***************************************************************************)
\* number of calls the caller makes on the ledger in one run
MaxCalls == 4

\* number of calls the caller makes on the map in one run
MaxMapCalls == 2

\* the caller passes coordinates within this distance of the origin
InputRadius == 1

\* number of times the caller saves the map in one run
MaxSaves == 1

\* number of calls the caller makes on the map in a run that saves and loads
MaxPersistCalls == 1

\* number of moves of the party on foot before its ledger is saved
MaxMoves == 2

\* number of days a journey has lasted: the rests taken before its last day
MaxRests == 10

\* the caller passes resupply a number of days of this size at most
MaxDays == 25
MaxRadius == 3
CentreRadius == 3

\* number of forced marches on foot, and then on the transport changed to,
\* on the last day of a journey
MaxMarches == 4

(***************************************************************************)
(* config/constants.py                                                     *)
(***************************************************************************)
Terrains == {"forest", "plains", "mountains", "water", "desert", "swamp", "tundra", "hills"}

Paces == {"slow", "normal", "fast"}

Transports == {"on_foot", "horse", "boat", "airship"}

\* favored_terrain = None
None == "None"

\* the impassable sentinel, as a plain number
IMPASSABLE == 999

\* movement cost grid: 1/80 of a movement point
CostScale == 2 * 40

\* supplies grid: 1/10 of a day
SupplyScale == 2 * 5

\* TERRAIN_TYPES[t]["movement_cost"], in halves
MovementCost2(terrain) ==
    CASE terrain = "forest"    -> 3
      [] terrain = "plains"    -> 2
      [] terrain = "mountains" -> 6
      [] terrain = "water"     -> 2 * IMPASSABLE
      [] terrain = "desert"    -> 4
      [] terrain = "swamp"     -> 6
      [] terrain = "tundra"    -> 4
      [] terrain = "hills"     -> 3

\* TRANSPORTATION_MODES[tr]["terrain_modifiers"][t], in 1/40
TerrainModifier40(transport, terrain) ==
    CASE transport = "on_foot" ->
           IF terrain = "water" THEN 40 * IMPASSABLE ELSE 40
      [] transport = "horse" ->
           (CASE terrain = "forest"    -> 48
              [] terrain = "plains"    -> 32
              [] terrain = "mountains" -> 60
              [] terrain = "water"     -> 40 * IMPASSABLE
              [] terrain = "desert"    -> 44
              [] terrain = "swamp"     -> 80
              [] terrain = "tundra"    -> 48
              [] terrain = "hills"     -> 36)
      [] transport = "boat" ->
           (CASE terrain = "water" -> 20
              [] terrain = "swamp" -> 80
              [] OTHER             -> 40 * IMPASSABLE)
      [] transport = "airship" ->
           (CASE terrain = "forest"    -> 32
              [] terrain = "plains"    -> 32
              [] terrain = "mountains" -> 40
              [] terrain = "water"     -> 32
              [] terrain = "desert"    -> 36
              [] terrain = "swamp"     -> 32
              [] terrain = "tundra"    -> 44
              [] terrain = "hills"     -> 34)

\* TRANSPORTATION_MODES[tr]["base_hexes_per_8h"][pace]
BaseHexesPer8h(transport, pace) ==
    CASE transport = "on_foot" ->
           (CASE pace = "slow" -> 6 [] pace = "normal" -> 8 [] pace = "fast" -> 10)
      [] transport = "horse" ->
           (CASE pace = "slow" -> 9 [] pace = "normal" -> 12 [] pace = "fast" -> 15)
      [] transport = "boat" ->
           (CASE pace = "slow" -> 8 [] pace = "normal" -> 12 [] pace = "fast" -> 16)
      [] transport = "airship" ->
           (CASE pace = "slow" -> 12 [] pace = "normal" -> 20 [] pace = "fast" -> 28)

\* TRANSPORTATION_MODES[tr]["requires_rest"]
RequiresRest(transport) == transport \in {"on_foot", "horse"}

\* TRANSPORTATION_MODES[tr]["exhaustion_resistant"]
ExhaustionResistant(transport) == transport \in {"horse", "boat", "airship"}

(***************************************************************************)
(* Fractions for hours_traveled.                                           *)
(***************************************************************************)
RECURSIVE GCD(_, _)
GCD(a, b) == IF b = 0 THEN a ELSE GCD(b, a % b)

Frac(n, d) == LET g == GCD(n, d) IN [n |-> n \div g, d |-> d \div g]

FracAdd(x, y) == Frac(x.n * y.d + y.n * x.d, x.d * y.d)

FracGE(x, k) == x.n >= k * x.d

Zero == Frac(0, 1)

Min(a, b) == IF a <= b THEN a ELSE b

Max(a, b) == IF a >= b THEN a ELSE b

(***************************************************************************)
(* travel/system.py: class TravelSystem.  Each method is an operator from  *)
(* the ledger (a record of the object's fields) to the ledger after it.    *)
(***************************************************************************)
\* _update_movement_points
UpdateMovementPoints(ts) ==
    LET base0 == BaseHexesPer8h(ts.current_transport, ts.current_pace)
        \* int(base_movement * 1.1)
        base_movement == IF ts.has_navigator THEN (base0 * 11) \div 10 ELSE base0
        ts1 == [ts EXCEPT !.max_movement = base_movement]
        \* ratio = movement_points / (max_movement or 1), max_movement being the
        \* value just assigned; movement_points = base_movement * ratio
        divisor == IF ts1.max_movement = 0 THEN 1 ELSE ts1.max_movement
    IN  IF ~ts.is_resting
        THEN [ts1 EXCEPT !.movement_points =
                             (base_movement * ts.movement_points) \div divisor]
        ELSE ts1

(***************************************************************************)
(* _update_movement_points on doubles.  A double x > 0 is m * 2^(e - 52)   *)
(* with 2^52 <= m < 2^53; a quotient or product is rounded to the nearest  *)
(* such number, a tie to the one with even m.  For movement_points =       *)
(* k / 2^s (a double) and the integer base_movement b, the operators below *)
(* compute how far  b * (movement_points / b)  lands from movement_points, *)
(* with remainders modulo b and 2b only, so that no number exceeds 32 bits.*)
(***************************************************************************)
\* 2^e <= n / d, for n, d > 0
AtLeastPow2(e, n, d) == IF e >= 0 THEN d * 2^e <= n ELSE d <= n * 2^(0 - e)

\* the exponent of the double n / d: the largest e with 2^e <= n / d
FloorLog2(n, d) ==
    CHOOSE e \in -20..20 : AtLeastPow2(e, n, d) /\ ~AtLeastPow2(e + 1, n, d)

\* 2^t modulo m
RECURSIVE PowMod(_, _)
PowMod(t, m) == IF t = 0 THEN 1 % m ELSE (2 * PowMod(t - 1, m)) % m

\* b * (k / 2^s / b) - k / 2^s on doubles, in units of 2^(E - 53), half a
\* unit in the last place of k / 2^s, E being the exponent of k / 2^s
RescaleDrift(k, s, b) ==
    LET E    == FloorLog2(k, 2^s)
        e    == FloorLog2(k, b * 2^s)
        \* the quotient is m * 2^(e - 52), m the rounded k * 2^t / b
        t    == 52 - e - s
        rem  == ((k % b) * PowMod(t, b)) % b
        rem2 == ((k % (2 * b)) * PowMod(t, 2 * b)) % (2 * b)
        odd  == ((rem2 - rem) \div b) % 2 = 1
        up   == 2 * rem > b \/ (2 * rem = b /\ odd)
        \* b * m = k * 2^t + d
        d    == IF up THEN b - rem ELSE 0 - rem
        \* the product is k / 2^s + (num / den) * 2^(E - 53)
        num  == 2 * d
        den  == 2^(E - e)
        abs  == IF num >= 0 THEN num ELSE 0 - num
        pow2 == \E i \in 0..20 : k = 2^i
    IN  IF num >= 0 \/ ~pow2
        THEN \* the doubles around k / 2^s are 2 units apart, a tie goes to
             \* k / 2^s, whose m is even
             IF abs > den THEN (IF num >= 0 THEN 2 ELSE -2) ELSE 0
        ELSE \* below a power of two the doubles are 1 unit apart
             LET fl == abs \div den
                 rm == abs % den
             IN  IF 2 * rm > den \/ (2 * rm = den /\ fl % 2 = 1)
                 THEN 0 - (fl + 1) ELSE 0 - fl

\* movement_points is a multiple of 1/16, which a double holds exactly
IsDyadic(ts) == ts.movement_drift = 0 /\ ts.movement_points % (CostScale \div 16) = 0

\* _update_movement_points, the rescaling computed on doubles: defined for a
\* movement_points that IsDyadic, and a movement_points of 0 stays 0
UpdateMovementPointsDouble(ts) ==
    LET ts1 == UpdateMovementPoints(ts)
    IN  IF ~ts.is_resting /\ IsDyadic(ts) /\ ts.movement_points > 0 /\ ts1.max_movement > 0
        THEN [ts1 EXCEPT !.movement_drift =
                  RescaleDrift(ts.movement_points \div (CostScale \div 16), 4,
                               ts1.max_movement)]
        ELSE ts1

\* __init__
NewTravelSystem ==
    UpdateMovementPoints(
        [current_pace      |-> "normal",
         current_transport |-> "on_foot",
         hours_traveled    |-> Zero,
         movement_points   |-> 8 * CostScale,
         movement_drift    |-> 0,
         max_movement      |-> 8,
         is_resting        |-> FALSE,
         exhaustion_level  |-> 0,
         days_traveled     |-> 0,
         supplies          |-> 10 * SupplyScale,
         mount_exhaustion  |-> 0,
         has_ranger        |-> FALSE,
         has_outlander     |-> FALSE,
         has_navigator     |-> FALSE,
         favored_terrain   |-> None])

\* get_movement_cost without its early return for an impassable modifier
GetMovementCostNoSentinel(ts, terrain) ==
    LET base_cost2 == MovementCost2(terrain)
        modifier40 == TerrainModifier40(ts.current_transport, terrain)
        halved40   == IF ts.has_ranger /\ terrain = ts.favored_terrain
                      THEN modifier40 \div 2 ELSE modifier40
    IN  IF ts.has_ranger /\ ts.current_transport = "on_foot"
        THEN Min(base_cost2 * halved40, CostScale)
        ELSE base_cost2 * halved40

\* get_movement_cost without the ranger's cap on foot
GetMovementCostNoCap(ts, terrain) ==
    LET base_cost2 == MovementCost2(terrain)
        modifier40 == TerrainModifier40(ts.current_transport, terrain)
        halved40   == IF ts.has_ranger /\ terrain = ts.favored_terrain
                      THEN modifier40 \div 2 ELSE modifier40
    IN  IF modifier40 >= 40 * IMPASSABLE
        THEN IMPASSABLE * CostScale
        ELSE base_cost2 * halved40

\* get_movement_cost with the favored terrain's halving moved before the
\* impassable check
GetMovementCostHalvedFirst(ts, terrain) ==
    LET base_cost2 == MovementCost2(terrain)
        modifier40 == TerrainModifier40(ts.current_transport, terrain)
        halved40   == IF ts.has_ranger /\ terrain = ts.favored_terrain
                      THEN modifier40 \div 2 ELSE modifier40
    IN  IF halved40 >= 40 * IMPASSABLE
        THEN IMPASSABLE * CostScale
        ELSE IF ts.has_ranger /\ ts.current_transport = "on_foot"
             THEN Min(base_cost2 * halved40, CostScale)
             ELSE base_cost2 * halved40

\* get_movement_cost, in 1/80
GetMovementCost(ts, terrain) ==
    LET base_cost2 == MovementCost2(terrain)
        modifier40 == TerrainModifier40(ts.current_transport, terrain)
        halved40   == IF ts.has_ranger /\ terrain = ts.favored_terrain
                      THEN modifier40 \div 2 ELSE modifier40
    IN  IF modifier40 >= 40 * IMPASSABLE
        THEN IMPASSABLE * CostScale
        ELSE IF ts.has_ranger /\ ts.current_transport = "on_foot"
             THEN Min(base_cost2 * halved40, CostScale)
             ELSE base_cost2 * halved40

\* can_move_to without the comparison against movement_points
CanMoveToAnyPoints(ts, terrain) ==
    GetMovementCost(ts, terrain) < IMPASSABLE * CostScale

\* can_move_to
CanMoveTo(ts, terrain) ==
    LET cost == GetMovementCost(ts, terrain)
    IN  IF cost >= IMPASSABLE * CostScale
        THEN FALSE
        ELSE ts.movement_points >= cost

\* move_to_hex, the branch taken when can_move_to holds; consume is the
\* outcome of random.random() < 0.1
MoveToHex(ts, terrain, consume) ==
    LET cost == GetMovementCost(ts, terrain)
    IN  [ts EXCEPT !.movement_points = @ - cost,
                   \* (cost / max_movement) * 8
                   !.hours_traveled  = FracAdd(@, Frac(cost * 8, CostScale * ts.max_movement)),
                   !.supplies        = IF consume THEN Max(0, @ - 1) ELSE @]

\* rest restoring the on-foot default of 8 points instead of max_movement
RestToDefault(ts) ==
    LET ts1 == UpdateMovementPoints(ts)
    IN  [ts1 EXCEPT !.movement_points  = 8 * CostScale,
                    !.hours_traveled   = Zero,
                    !.days_traveled    = @ + 1,
                    !.exhaustion_level = IF @ > 0 THEN @ - 1 ELSE @,
                    !.mount_exhaustion = IF @ > 0 THEN @ - 1 ELSE @,
                    !.supplies         = Max(0, @ - SupplyScale),
                    !.is_resting       = TRUE]

\* rest taking the day's supplies with no floor
RestNoFloor(ts) ==
    LET ts1 == UpdateMovementPoints(ts)
    IN  [ts1 EXCEPT !.movement_points  = ts1.max_movement * CostScale,
                    !.hours_traveled   = Zero,
                    !.days_traveled    = @ + 1,
                    !.exhaustion_level = IF @ > 0 THEN @ - 1 ELSE @,
                    !.mount_exhaustion = IF @ > 0 THEN @ - 1 ELSE @,
                    !.supplies         = @ - SupplyScale,
                    !.is_resting       = TRUE]

\* rest
Rest(ts) ==
    LET ts1 == UpdateMovementPoints(ts)
    IN  [ts1 EXCEPT !.movement_points  = ts1.max_movement * CostScale,
                    !.hours_traveled   = Zero,
                    !.days_traveled    = @ + 1,
                    !.exhaustion_level = IF @ > 0 THEN @ - 1 ELSE @,
                    !.mount_exhaustion = IF @ > 0 THEN @ - 1 ELSE @,
                    !.supplies         = Max(0, @ - SupplyScale),
                    !.is_resting       = TRUE]

\* forced_march rolling for exhaustion whatever hours_traveled is
ForcedMarchAlwaysRolls(ts, exhausted) ==
    LET resistant == ExhaustionResistant(ts.current_transport)
    IN  [ts EXCEPT !.mount_exhaustion = IF exhausted /\ resistant THEN @ + 1 ELSE @,
                   !.exhaustion_level = IF exhausted /\ ~resistant THEN @ + 1 ELSE @,
                   !.movement_points  = @ + 2 * CostScale,
                   !.hours_traveled   = FracAdd(@, Frac(2, 1))]

\* forced_march, the branch taken when the transport requires rest; exhausted
\* is the outcome of random.random() < 0.3
ForcedMarch(ts, exhausted) ==
    LET roll == FracGE(ts.hours_traveled, 8) /\ exhausted
        resistant == ExhaustionResistant(ts.current_transport)
    IN  [ts EXCEPT !.mount_exhaustion = IF roll /\ resistant THEN @ + 1 ELSE @,
                   !.exhaustion_level = IF roll /\ ~resistant THEN @ + 1 ELSE @,
                   !.movement_points  = @ + 2 * CostScale,
                   !.hours_traveled   = FracAdd(@, Frac(2, 1))]

\* change_pace
ChangePace(ts, new_pace) ==
    IF new_pace \in Paces
    THEN UpdateMovementPoints([ts EXCEPT !.current_pace = new_pace])
    ELSE ts

\* change_transport
ChangeTransport(ts, new_transport) ==
    IF new_transport \in Transports
    THEN UpdateMovementPoints([ts EXCEPT !.current_transport = new_transport])
    ELSE ts

\* resupply
Resupply(ts, days) ==
    [ts EXCEPT !.supplies = Min(30 * SupplyScale, @ + days * SupplyScale)]

\* toggle_ranger
ToggleRanger(ts) == [ts EXCEPT !.has_ranger = ~@]

\* toggle_navigator
ToggleNavigator(ts) == UpdateMovementPoints([ts EXCEPT !.has_navigator = ~@])

\* toggle_outlander
ToggleOutlander(ts) == [ts EXCEPT !.has_outlander = ~@]

\* set_favored_terrain without the vocabulary test of line 157
SetFavoredTerrainUnchecked(ts, terrain) == [ts EXCEPT !.favored_terrain = terrain]

\* set_favored_terrain
SetFavoredTerrain(ts, terrain) ==
    IF terrain \in Terrains \/ terrain = None
    THEN [ts EXCEPT !.favored_terrain = terrain]
    ELSE ts

(***************************************************************************)
(* core/hex.py                                                             *)
(***************************************************************************)
Abs(x) == IF x < 0 THEN -x ELSE x

\* HexCoordinates.get_neighbors: the six neighbours, in the code's order
get_neighbors(c) ==
    LET directions == << <<1, 0, -1>>, <<1, -1, 0>>, <<0, -1, 1>>,
                         <<-1, 0, 1>>, <<-1, 1, 0>>, <<0, 1, -1>> >>
    IN  [i \in 1..6 |-> <<c[1] + directions[i][1],
                          c[2] + directions[i][2],
                          c[3] + directions[i][3]>>]

\* HexCoordinates.distance
distance(a, b) == (Abs(a[1] - b[1]) + Abs(a[2] - b[2]) + Abs(a[3] - b[3])) \div 2

\* the inner loop without the bounds of line 56: dr over -radius..radius
RadiusRowUnclamped(c, radius, dq) ==
    [i \in 1..(2 * radius + 1) |->
        LET dr == i - 1 - radius
            ds == -dq - dr
        IN  <<c[1] + dq, c[2] + dr, c[3] + ds>>]

\* the inner loop of get_hexes_within_radius: the coordinates of one dq
RadiusRow(c, radius, dq) ==
    LET lo == Max(-radius, -dq - radius)
        hi == Min(radius, -dq + radius)
    IN  [i \in 1..(hi - lo + 1) |->
            LET dr == lo + i - 1
                ds == -dq - dr
            IN  <<c[1] + dq, c[2] + dr, c[3] + ds>>]

RECURSIVE RadiusRows(_, _, _)
\* the outer loop of get_hexes_within_radius, from dq upwards
RadiusRows(c, radius, dq) ==
    IF dq > radius THEN << >>
    ELSE RadiusRow(c, radius, dq) \o RadiusRows(c, radius, dq + 1)

\* HexCoordinates.get_hexes_within_radius
get_hexes_within_radius(c, radius) == RadiusRows(c, radius, -radius)

Range(seq) == {seq[i] : i \in DOMAIN seq}

\* the placeholder description of a tile that awaits generation
Placeholder == "Awaiting description..."

\* class Hex, as its constructor is called by _create_simple_hex: explored
\* and visible default to False, distance_from_current to 999
Hex(c, terrain, description, generating) ==
    [q |-> c[1], r |-> c[2], s |-> c[3],
     terrain |-> terrain,
     description |-> description,
     explored |-> FALSE,
     visible |-> FALSE,
     generating |-> generating,
     distance_from_current |-> 999]

(***************************************************************************)
(* generation/manager.py: class GenerationManager                          *)
(***************************************************************************)
One == Frac(1, 1)

\* __init__; generation_thread is an index into threads, 0 for None
NewGenerationManager ==
    [generating        |-> FALSE,
     progress          |-> Zero,
     total_hexes       |-> 0,
     completed_hexes   |-> 0,
     current_hex_name  |-> "",
     generation_thread |-> 0,
     hexes_to_generate |-> << >>,
     cancel_generation |-> FALSE,
     generation_type   |-> "scouting"]

\* start_generation: the manager and the threads after the call.  A thread
\* iterates over the list that was the manager's hexes_to_generate when it
\* started; cancelled records that cancel() was called while it was the
\* manager's thread (history, for the claims about cancellation); orphaned
\* tells that the Hex objects of its list are no longer the map's, which
\* load_from_json has replaced by new ones, and hex_names then keeps the
\* names of these objects.
StartGeneration(gm, th, batch, gen_type) ==
    IF gm.generating
    THEN [gen_manager |-> gm, threads |-> th]
    ELSE [gen_manager |->
              [gm EXCEPT !.hexes_to_generate = batch,
                         !.total_hexes       = Len(batch),
                         !.completed_hexes   = 0,
                         !.progress          = Zero,
                         !.generating        = TRUE,
                         !.cancel_generation = FALSE,
                         !.generation_type   = gen_type,
                         !.generation_thread = Len(th) + 1],
          threads |->
              Append(th, [pc |-> "loop", items |-> batch, idx |-> 1,
                          cancelled |-> FALSE, orphaned |-> FALSE,
                          hex_names |-> << >>])]

\* OllamaClient.generate: some text for the terrain, never the placeholder
Generate(terrain) == "description of " \o terrain

(***************************************************************************)
(* core/map.py: class HexMap                                               *)
(***************************************************************************)
\* The outcomes of random.choice in _create_simple_hex: the i-th tile that a
\* call creates gets the i-th terrain of the sequence drawn for the call,
\* taken cyclically.
DrawSequences ==
    { <<"water", "plains">>,
      <<"mountains", "plains", "water">> }

DrawTerrain(draw, i) == draw[((i - 1) % Len(draw)) + 1]

\* _create_simple_hex (create_hex), with the terrain that was drawn
CreateHex(c, terrain) == Hex(c, terrain, Placeholder, TRUE)

\* calculate_distances left out
CalculateDistancesStale(hx, position) == hx

\* calculate_distances
CalculateDistances(hx, position) ==
    [c \in DOMAIN hx |->
        [hx[c] EXCEPT !.distance_from_current = distance(position, c)]]

RECURSIVE InitNeighbors(_, _, _, _)
\* initialize_map, the loop over the origin's neighbours from the i-th on
InitNeighbors(hx, cs, i, draw) ==
    IF i > Len(cs) THEN hx
    ELSE LET hex_obj == [CreateHex(cs[i], DrawTerrain(draw, i + 1)) EXCEPT !.visible = TRUE]
             hx1 == [c \in DOMAIN hx \cup {cs[i]} |-> IF c = cs[i] THEN hex_obj ELSE hx[c]]
         IN  InitNeighbors(hx1, cs, i + 1, draw)

\* initialize_map with a batch that leaves the starting hex out
InitializeMapNeighboursOnly(hx, gm, th, draw) ==
    LET origin == <<0, 0, 0>>
        start_hex == [CreateHex(origin, DrawTerrain(draw, 1))
                         EXCEPT !.explored = TRUE, !.visible = TRUE]
        hx1 == [c \in DOMAIN hx \cup {origin} |-> IF c = origin THEN start_hex ELSE hx[c]]
        hx2 == InitNeighbors(hx1, get_neighbors(origin), 1, draw)
        started == StartGeneration(gm, th, get_neighbors(origin), "scouting")
    IN  [hexes |-> hx2, gen_manager |-> started.gen_manager, threads |-> started.threads]

\* initialize_map
InitializeMap(hx, gm, th, draw) ==
    LET origin == <<0, 0, 0>>
        start_hex == [CreateHex(origin, DrawTerrain(draw, 1))
                         EXCEPT !.explored = TRUE, !.visible = TRUE]
        hx1 == [c \in DOMAIN hx \cup {origin} |-> IF c = origin THEN start_hex ELSE hx[c]]
        hx2 == InitNeighbors(hx1, get_neighbors(origin), 1, draw)
        started == StartGeneration(gm, th, <<origin>> \o get_neighbors(origin), "scouting")
    IN  [hexes |-> hx2, gen_manager |-> started.gen_manager, threads |-> started.threads]

RECURSIVE Reveal(_, _, _, _, _)
\* the loop of explore_hex over the neighbours (and of rest_and_scout over
\* the radius) from the i-th coordinate on: an absent tile is created
\* visible and put on the list to generate, a present one is made visible
Reveal(hx, cs, i, draw, created) ==
    IF i > Len(cs) THEN [hexes |-> hx, hexes_to_generate |-> created]
    ELSE IF cs[i] \notin DOMAIN hx
         THEN LET new_hex == [CreateHex(cs[i], DrawTerrain(draw, Len(created) + 1))
                                 EXCEPT !.visible = TRUE]
                  hx1 == [c \in DOMAIN hx \cup {cs[i]} |->
                             IF c = cs[i] THEN new_hex ELSE hx[c]]
              IN  Reveal(hx1, cs, i + 1, draw, Append(created, cs[i]))
         ELSE Reveal([hx EXCEPT ![cs[i]].visible = TRUE], cs, i + 1, draw, created)

\* rest_and_scout
RestAndScout(hx, position, ts, gm, th, draw) ==
    LET scouted == Reveal(hx, get_hexes_within_radius(position, 2), 1, draw, << >>)
        started == IF scouted.hexes_to_generate # << >>
                   THEN StartGeneration(gm, th, scouted.hexes_to_generate, "resting")
                   ELSE [gen_manager |-> gm, threads |-> th]
    IN  [travel_system |-> Rest(ts),
         hexes         |-> scouted.hexes,
         gen_manager   |-> started.gen_manager,
         threads       |-> started.threads]

\* str() of a movement cost given in halves: 1 -> "1", 1.5 -> "1.5"
CostText(cost2) ==
    IF cost2 % 2 = 0 THEN ToString(cost2 \div 2)
    ELSE ToString(cost2 \div 2) \o ".5"

\* explore_hex, line 153: the message names the terrain's own movement_cost
NeedMessage(terrain) ==
    "Need " \o CostText(MovementCost2(terrain)) \o " movement points!"

\* explore_hex without the check of the tile's generating flag
ExploreHexFailureNoGenerating(hx, ts, c) ==
    IF c \notin DOMAIN hx THEN "Hex doesn't exist!"
    ELSE IF ~CanMoveTo(ts, hx[c].terrain) THEN NeedMessage(hx[c].terrain)
    ELSE None

\* explore_hex, lines 145-153: the message of the failure, None when the
\* call goes on
ExploreHexFailure(hx, ts, c) ==
    IF c \notin DOMAIN hx THEN "Hex doesn't exist!"
    ELSE IF hx[c].generating THEN "Still generating..."
    ELSE IF ~CanMoveTo(ts, hx[c].terrain) THEN NeedMessage(hx[c].terrain)
    ELSE None

\* explore_hex without the loop of lines 161-169 that creates the neighbours
ExploreHexNoNeighbours(hx, ts, gm, th, c, consume, draw) ==
    LET hx1 == [hx EXCEPT ![c].explored = TRUE]
    IN  [travel_system    |-> MoveToHex(ts, hx[c].terrain, consume),
         current_position |-> c,
         hexes            |-> CalculateDistances(hx1, c),
         gen_manager      |-> gm,
         threads          |-> th]

\* explore_hex, lines 155-175: the successful call
ExploreHex(hx, ts, gm, th, c, consume, draw) ==
    LET hx1 == [hx EXCEPT ![c].explored = TRUE]
        revealed == Reveal(hx1, get_neighbors(c), 1, draw, << >>)
        started == IF revealed.hexes_to_generate # << >>
                   THEN StartGeneration(gm, th, revealed.hexes_to_generate, "scouting")
                   ELSE [gen_manager |-> gm, threads |-> th]
    IN  [travel_system    |-> MoveToHex(ts, hx[c].terrain, consume),
         current_position |-> c,
         hexes            |-> CalculateDistances(revealed.hexes, c),
         gen_manager      |-> started.gen_manager,
         threads          |-> started.threads]

\* navigate_to_hex without the test of the explored flag
NavigateToHexFailureAnyTile(hx, ts, c) ==
    IF c \notin DOMAIN hx THEN "Cannot navigate to unexplored hex!"
    ELSE IF ~CanMoveTo(ts, hx[c].terrain) THEN "Not enough movement points!"
    ELSE None

\* navigate_to_hex, lines 125-129 and 141: the message of the failure, None
\* when the call goes on
NavigateToHexFailure(hx, ts, c) ==
    IF ~(c \in DOMAIN hx /\ hx[c].explored) THEN "Cannot navigate to unexplored hex!"
    ELSE IF ~CanMoveTo(ts, hx[c].terrain) THEN "Not enough movement points!"
    ELSE None

\* navigate_to_hex, lines 131-140: the successful call
NavigateToHex(hx, ts, c, consume) ==
    LET near == Range(get_neighbors(c)) \cap DOMAIN hx
        hx1 == [d \in DOMAIN hx |-> IF d \in near THEN [hx[d] EXCEPT !.visible = TRUE] ELSE hx[d]]
    IN  [travel_system    |-> MoveToHex(ts, hx[c].terrain, consume),
         current_position |-> c,
         hexes            |-> CalculateDistances(hx1, c)]

(***************************************************************************)
(* core/hex.py, core/map.py, travel/system.py: saving and loading.         *)
(***************************************************************************)
\* Hex.to_dict: asdict without generating and distance_from_current
ToDict(hex_obj) ==
    [q |-> hex_obj.q, r |-> hex_obj.r, s |-> hex_obj.s,
     terrain |-> hex_obj.terrain,
     description |-> hex_obj.description,
     explored |-> hex_obj.explored,
     visible |-> hex_obj.visible]

\* mutant of FromDict: the loaded tile is never explored
FromDictUnexplored(data) ==
    [q |-> data.q, r |-> data.r, s |-> data.s,
     terrain |-> data.terrain,
     description |-> data.description,
     explored |-> FALSE,
     visible |-> data.visible,
     generating |-> FALSE,
     distance_from_current |-> 999]

\* Hex.from_dict
FromDict(data) ==
    [q |-> data.q, r |-> data.r, s |-> data.s,
     terrain |-> data.terrain,
     description |-> data.description,
     explored |-> data.explored,
     visible |-> data.visible,
     generating |-> FALSE,
     distance_from_current |-> 999]

\* TravelSystem.get_save_data; the double written for "movement" is
\* movement and movement_drift
GetSaveData(ts) ==
    [days |-> ts.days_traveled,
     hours |-> ts.hours_traveled,
     movement |-> ts.movement_points,
     movement_drift |-> ts.movement_drift,
     pace |-> ts.current_pace,
     exhaustion |-> ts.exhaustion_level,
     transport |-> ts.current_transport,
     supplies |-> ts.supplies,
     mount_exhaustion |-> ts.mount_exhaustion,
     has_ranger |-> ts.has_ranger,
     has_navigator |-> ts.has_navigator,
     has_outlander |-> ts.has_outlander,
     favored_terrain |-> ts.favored_terrain]

\* TravelSystem.load_from_data, for data that get_save_data wrote (every key
\* is there); max_movement and is_resting are not in the data
LoadFromData(ts, data) ==
    UpdateMovementPointsDouble(
        [ts EXCEPT !.days_traveled = data.days,
                   !.hours_traveled = data.hours,
                   !.movement_points = data.movement,
                   !.movement_drift = data.movement_drift,
                   !.current_pace = data.pace,
                   !.exhaustion_level = data.exhaustion,
                   !.current_transport = data.transport,
                   !.supplies = data.supplies,
                   !.mount_exhaustion = data.mount_exhaustion,
                   !.has_ranger = data.has_ranger,
                   !.has_navigator = data.has_navigator,
                   !.has_outlander = data.has_outlander,
                   !.favored_terrain = data.favored_terrain])

\* save_to_json: the map_data written to the file; "hexes" is the list of
\* the tiles' dictionaries, kept as a set (terrain_seed and terrain_cache
\* never change: the advanced terrain is disabled)
SaveToJson(position, hx, ts) ==
    [current_position |-> position,
     hexes |-> {ToDict(hx[c]) : c \in DOMAIN hx},
     travel_data |-> GetSaveData(ts)]

\* load_from_json, from the map_data read from the file
LoadFromJson(map_data, ts) ==
    LET keys == {<<d.q, d.r, d.s>> : d \in map_data.hexes}
        hx == [c \in keys |->
                 FromDict(CHOOSE d \in map_data.hexes : <<d.q, d.r, d.s>> = c)]
    IN  [current_position |-> map_data.current_position,
         hexes            |-> CalculateDistances(hx, map_data.current_position),
         travel_system    |-> LoadFromData(ts, map_data.travel_data)]

\* the ways a file can be damaged: it is not JSON, it lacks the key
\* current_position, it lacks the key hexes, its first tile record lacks a
\* field of Hex
Defects == {"not_json", "no_current_position", "no_hexes", "bad_first_tile"}

\* load_from_json of a damaged file, up to the statement that raises:
\* json.load (line 192), map_data["current_position"] (line 195),
\* map_data["hexes"] (line 206) or Hex.from_dict of the first record (207)
LoadFromJsonRaises(map_data, hx, position, defect) ==
    [hexes            |-> IF defect = "not_json" THEN hx ELSE << >>,
     current_position |-> IF defect \in {"not_json", "no_current_position"}
                          THEN position ELSE map_data.current_position,
     exception        |-> CASE defect = "not_json" -> "JSONDecodeError"
                            [] defect = "bad_first_tile" -> "TypeError"
                            [] OTHER -> "KeyError"]

(***************************************************************************)
(* What a call leaves behind in ret.                                       *)
(***************************************************************************)
Ret(op, arg, value, msg) == [op |-> op, arg |-> arg, value |-> value, msg |-> msg]

NoCall == Ret(None, None, None, None)

mapVars == <<hexes, current_position, gen_manager, threads, main_pc, json_file>>

(***************************************************************************)
(* The ledger on its own: a caller making calls on a fresh TravelSystem.   *)
(***************************************************************************)
TravelInit ==
    /\ travel_system = NewTravelSystem
    /\ hexes = << >>
    /\ current_position = <<0, 0, 0>>
    /\ gen_manager = NewGenerationManager
    /\ threads = << >>
    /\ main_pc = "idle"
    /\ ret = NoCall
    /\ calls = 0
    /\ json_file = << >>

Called == calls < MaxCalls /\ calls' = calls + 1 /\ UNCHANGED mapVars

move_to_hex(terrain) ==
    /\ Called
    /\ IF CanMoveTo(travel_system, terrain)
       THEN \E consume \in BOOLEAN :
              /\ travel_system' = MoveToHex(travel_system, terrain, consume)
              /\ ret' = Ret("move_to_hex", terrain, "True", None)
       ELSE /\ travel_system' = travel_system
            /\ ret' = Ret("move_to_hex", terrain, "False", None)

rest ==
    /\ Called
    /\ travel_system' = Rest(travel_system)
    /\ ret' = Ret("rest", None, None, None)

forced_march ==
    /\ Called
    /\ IF ~RequiresRest(travel_system.current_transport)
       THEN /\ travel_system' = travel_system
            /\ ret' = Ret("forced_march", None, "False", None)
       ELSE \E exhausted \in BOOLEAN :
              /\ travel_system' = ForcedMarch(travel_system, exhausted)
              /\ ret' = Ret("forced_march", None, "True", None)

change_pace(new_pace) ==
    /\ Called
    /\ travel_system' = ChangePace(travel_system, new_pace)
    /\ ret' = Ret("change_pace", new_pace, None, None)

change_transport(new_transport) ==
    /\ Called
    /\ travel_system' = ChangeTransport(travel_system, new_transport)
    /\ ret' = Ret("change_transport", new_transport,
                  IF new_transport \in Transports THEN "True" ELSE "False", None)

toggle_ranger ==
    /\ Called
    /\ travel_system' = ToggleRanger(travel_system)
    /\ ret' = Ret("toggle_ranger", None, None, None)

toggle_navigator ==
    /\ Called
    /\ travel_system' = ToggleNavigator(travel_system)
    /\ ret' = Ret("toggle_navigator", None, None, None)

toggle_outlander ==
    /\ Called
    /\ travel_system' = ToggleOutlander(travel_system)
    /\ ret' = Ret("toggle_outlander", None, None, None)

set_favored_terrain(terrain) ==
    /\ Called
    /\ travel_system' = SetFavoredTerrain(travel_system, terrain)
    /\ ret' = Ret("set_favored_terrain", terrain, None, None)

TravelNext ==
    \/ \E terrain \in Terrains : move_to_hex(terrain)
    \/ rest
    \/ forced_march
    \/ \E new_pace \in Paces : change_pace(new_pace)
    \/ \E new_transport \in Transports : change_transport(new_transport)
    \/ toggle_ranger
    \/ toggle_navigator
    \/ toggle_outlander
    \/ \E terrain \in Terrains \cup {None} : set_favored_terrain(terrain)

TravelSpec == TravelInit /\ [][TravelNext]_vars

(***************************************************************************)
(* The ledger's supplies: the calls that change them, resupply being       *)
(* called with any number of days.                                         *)
(***************************************************************************)
\* the numbers of days the caller passes
ResupplyDays == {0 - MaxDays, -1, 0, 1, 10, MaxDays}

resupply(days) ==
    /\ Called
    /\ travel_system' = Resupply(travel_system, days)
    /\ ret' = Ret("resupply", ToString(days), None, None)

SupplyNext ==
    \/ \E terrain \in Terrains : move_to_hex(terrain)
    \/ rest
    \/ forced_march
    \/ \E days \in ResupplyDays : resupply(days)

SupplySpec == TravelInit /\ [][SupplyNext]_vars

\* Values a caller can pass that are not in the vocabulary: an unknown word,
\* a word of another vocabulary, a word in the wrong case, the empty string.
PaceInputs == Paces \cup {"sprint", "Slow", "horse", ""}
TransportInputs == Transports \cup {"dragon", "Boat", "fast", ""}
TerrainInputs == Terrains \cup {None} \cup {"lava", "Forest", "normal", ""}

SetterNext ==
    \/ \E terrain \in {"plains", "forest"} : move_to_hex(terrain)
    \/ rest
    \/ toggle_navigator
    \/ \E new_pace \in PaceInputs : change_pace(new_pace)
    \/ \E new_transport \in TransportInputs : change_transport(new_transport)
    \/ \E terrain \in TerrainInputs : set_favored_terrain(terrain)

SetterSpec == TravelInit /\ [][SetterNext]_vars

(***************************************************************************)
(* HexCoordinates.get_hexes_within_radius on its own: a centre on the      *)
(* plane q + r + s = 0 and a radius are drawn, the call returns its list.  *)
(***************************************************************************)
Centres == Range(get_hexes_within_radius(<<0, 0, 0>>, CentreRadius))

RadiusInit ==
    /\ travel_system = NewTravelSystem
    /\ hexes = << >>
    /\ current_position \in Centres
    /\ gen_manager = NewGenerationManager
    /\ threads = << >>
    /\ main_pc = "idle"
    /\ ret = NoCall
    /\ calls = 0
    /\ json_file = << >>

hexes_within_radius(radius) ==
    /\ ret' = Ret("get_hexes_within_radius", ToString(radius),
                  get_hexes_within_radius(current_position, radius), None)
    /\ UNCHANGED <<travel_system, hexes, current_position, gen_manager,
                   threads, main_pc, calls, json_file>>

RadiusNext == \E radius \in 0..MaxRadius : hexes_within_radius(radius)

RadiusSpec == RadiusInit /\ [][RadiusNext]_vars

(***************************************************************************)
(* The map with its generation manager: the caller's thread makes calls on *)
(* the HexMap and on the manager, the worker threads run between them.     *)
(***************************************************************************)
\* the coordinates the caller passes
InputCoords == Range(get_hexes_within_radius(<<0, 0, 0>>, InputRadius))

Init == TravelInit

MapCalled == main_pc = "idle" /\ calls < MaxMapCalls /\ calls' = calls + 1

\* HexMapExplorer.__init__ calls initialize_map once, on the empty map
initialize_map ==
    /\ main_pc = "idle"
    /\ DOMAIN hexes = {}
    /\ \E draw \in DrawSequences :
         LET after == InitializeMap(hexes, gen_manager, threads, draw)
         IN  /\ hexes' = after.hexes
             /\ gen_manager' = after.gen_manager
             /\ threads' = after.threads
    /\ ret' = Ret("initialize_map", None, None, None)
    /\ UNCHANGED <<travel_system, current_position, main_pc, calls, json_file>>

explore_hex(c) ==
    /\ MapCalled
    /\ LET failure == ExploreHexFailure(hexes, travel_system, c)
       IN  IF failure # None
           THEN /\ ret' = Ret("explore_hex", None, "False", failure)
                /\ UNCHANGED <<travel_system, hexes, current_position, gen_manager, threads>>
           ELSE \E consume \in BOOLEAN, draw \in DrawSequences :
                  LET after == ExploreHex(hexes, travel_system, gen_manager, threads,
                                          c, consume, draw)
                  IN  /\ travel_system' = after.travel_system
                      /\ current_position' = after.current_position
                      /\ hexes' = after.hexes
                      /\ gen_manager' = after.gen_manager
                      /\ threads' = after.threads
                      /\ ret' = Ret("explore_hex", None, "True", None)
    /\ UNCHANGED <<main_pc, json_file>>

navigate_to_hex(c) ==
    /\ MapCalled
    /\ LET failure == NavigateToHexFailure(hexes, travel_system, c)
       IN  IF failure # None
           THEN /\ ret' = Ret("navigate_to_hex", None, "False", failure)
                /\ UNCHANGED <<travel_system, hexes, current_position>>
           ELSE \E consume \in BOOLEAN :
                  LET after == NavigateToHex(hexes, travel_system, c, consume)
                  IN  /\ travel_system' = after.travel_system
                      /\ current_position' = after.current_position
                      /\ hexes' = after.hexes
                      /\ ret' = Ret("navigate_to_hex", None, "True", None)
    /\ UNCHANGED <<gen_manager, threads, main_pc, json_file>>

rest_and_scout ==
    /\ MapCalled
    /\ \E draw \in DrawSequences :
         LET after == RestAndScout(hexes, current_position, travel_system,
                                   gen_manager, threads, draw)
         IN  /\ travel_system' = after.travel_system
             /\ hexes' = after.hexes
             /\ gen_manager' = after.gen_manager
             /\ threads' = after.threads
    /\ ret' = Ret("rest_and_scout", None, None, None)
    /\ UNCHANGED <<current_position, main_pc, json_file>>

\* whether thread w has not run to its end
Alive(th, w) == w \in DOMAIN th /\ th[w].pc # "done"

\* GenerationManager.cancel up to the join: the flag is set; with no thread,
\* or a thread that has ended, join returns at once and generating is cleared
CancelBegin(gm, th) ==
    LET joins == Alive(th, gm.generation_thread)
    IN  [gen_manager |-> [gm EXCEPT !.cancel_generation = TRUE,
                                    !.generating = IF joins THEN @ ELSE FALSE],
         threads     |-> [w \in DOMAIN th |->
                            IF w = gm.generation_thread /\ joins
                            THEN [th[w] EXCEPT !.cancelled = TRUE] ELSE th[w]],
         main_pc     |-> IF joins THEN "join" ELSE "idle"]

cancel ==
    /\ MapCalled
    /\ LET after == CancelBegin(gen_manager, threads)
       IN  /\ gen_manager' = after.gen_manager
           /\ threads' = after.threads
           /\ main_pc' = after.main_pc
    /\ ret' = Ret("cancel", None, None, None)
    /\ UNCHANGED <<travel_system, hexes, current_position, json_file>>

\* join(timeout=1) returns when the thread has ended, or after one second:
\* the second can pass while the worker is inside ollama.generate (a request
\* with a timeout of 10 seconds)
JoinReturns(gm, th) ==
    \/ ~Alive(th, gm.generation_thread)
    \/ th[gm.generation_thread].pc = "item"

\* GenerationManager.cancel after the join
cancel_join ==
    /\ main_pc = "join"
    /\ JoinReturns(gen_manager, threads)
    /\ gen_manager' = [gen_manager EXCEPT !.generating = FALSE]
    /\ main_pc' = "idle"
    /\ UNCHANGED <<travel_system, hexes, current_position, threads, ret, calls, json_file>>

\* whether the loop of _generate_worker goes on to its next item
WorkerContinues(gm, t) == t.idx <= Len(t.items) /\ ~gm.cancel_generation

\* _generate_worker, line 48: the name of the tile that is being described
HexName(hex_obj) ==
    hex_obj.terrain \o " at (" \o ToString(hex_obj.q) \o ", "
                    \o ToString(hex_obj.r) \o ")"

\* _generate_worker, lines 48-49: the item is named and its tile marked
WorkerBeginItem(gm, hx, t) ==
    LET c == t.items[t.idx]
    IN  [gen_manager |-> [gm EXCEPT !.current_hex_name =
                             IF t.orphaned THEN t.hex_names[t.idx]
                             ELSE HexName(hx[c])],
         hexes       |-> IF c \in DOMAIN hx /\ ~t.orphaned
                         THEN [hx EXCEPT ![c].generating = TRUE] ELSE hx,
         thread      |-> [t EXCEPT !.pc = "item"]]

\* _generate_worker, lines 62-63: the loop is over
WorkerExit(gm, hx, t) ==
    [gen_manager |-> [gm EXCEPT !.generating = FALSE, !.progress = One],
     hexes       |-> hx,
     thread      |-> [t EXCEPT !.pc = "done"]]

\* _generate_worker, lines 44-46: the head of the loop
WorkerLoop(gm, hx, t) ==
    IF WorkerContinues(gm, t)
    THEN WorkerBeginItem(gm, hx, t)
    ELSE WorkerExit(gm, hx, t)

\* _generate_worker, lines 51-56: the description arrives and is stored
WorkerFinishItem(gm, hx, t) ==
    LET c == t.items[t.idx]
        completed == gm.completed_hexes + 1
    IN  [gen_manager |-> [gm EXCEPT !.completed_hexes = completed,
                                    !.progress = Frac(completed, gm.total_hexes)],
         hexes       |-> IF c \in DOMAIN hx /\ ~t.orphaned
                         THEN [hx EXCEPT ![c].description = Generate(hx[c].terrain),
                                         ![c].generating = FALSE]
                         ELSE hx,
         thread      |-> [t EXCEPT !.pc = "loop", !.idx = @ + 1]]

\* the thread starts running: it reaches the head of its loop
worker_start(w) ==
    /\ threads[w].pc = "loop"
    /\ LET after == WorkerLoop(gen_manager, hexes, threads[w])
       IN  /\ gen_manager' = after.gen_manager
           /\ hexes' = after.hexes
           /\ threads' = [threads EXCEPT ![w] = after.thread]
    /\ UNCHANGED <<travel_system, current_position, main_pc, ret, calls, json_file>>

\* ollama.generate returns: the item is finished and the thread is back at
\* the head of its loop (one step: between the two the thread only sleeps)
worker_finish_item(w) ==
    /\ threads[w].pc = "item"
    /\ LET finished == WorkerFinishItem(gen_manager, hexes, threads[w])
           after == WorkerLoop(finished.gen_manager, finished.hexes, finished.thread)
       IN  /\ gen_manager' = after.gen_manager
           /\ hexes' = after.hexes
           /\ threads' = [threads EXCEPT ![w] = after.thread]
    /\ UNCHANGED <<travel_system, current_position, main_pc, ret, calls, json_file>>

WorkerNext ==
    \E w \in DOMAIN threads :
        \/ worker_start(w)
        \/ worker_finish_item(w)

CallerNext ==
    \/ initialize_map
    \/ \E c \in InputCoords : explore_hex(c)
    \/ \E c \in InputCoords : navigate_to_hex(c)
    \/ rest_and_scout
    \/ cancel
    \/ cancel_join

Next == CallerNext \/ WorkerNext

Spec == Init /\ [][Next]_vars

(***************************************************************************)
(* The map with saving and loading: the caller also writes the map to the  *)
(* file and reads it back (no cancel here), as                             *)
(* HexMapExplorer.handle_events does on Ctrl+S and Ctrl+O: only while no   *)
(* generation is running, and on the map that its __init__ has             *)
(* initialized.  The calls on the map are bounded by MaxPersistCalls,      *)
(* saving by MaxSaves; loading is not bounded: the states stay finitely    *)
(* many without it.                                                        *)
(***************************************************************************)
save_to_json ==
    /\ main_pc = "idle"
    /\ ~gen_manager.generating
    /\ DOMAIN hexes # {}
    /\ Len(json_file) < MaxSaves
    /\ json_file' = Append(json_file, SaveToJson(current_position, hexes, travel_system))
    /\ ret' = Ret("save_to_json", None, None, None)
    /\ UNCHANGED <<travel_system, hexes, current_position, gen_manager, threads, main_pc, calls>>

\* load_from_json of the file that was saved; the Hex objects the running
\* threads hold are no longer in the map
load_from_json ==
    /\ main_pc = "idle"
    /\ ~gen_manager.generating
    /\ json_file # << >>
    /\ LET after == LoadFromJson(json_file[Len(json_file)], travel_system)
       IN  /\ current_position' = after.current_position
           /\ hexes' = after.hexes
           /\ travel_system' = after.travel_system
    /\ threads' = [w \in DOMAIN threads |->
                     IF threads[w].orphaned THEN threads[w]
                     ELSE [threads[w] EXCEPT
                             !.orphaned = TRUE,
                             !.hex_names = [i \in DOMAIN threads[w].items |->
                                              HexName(hexes[threads[w].items[i]])]]]
    /\ ret' = Ret("load_from_json", None, None, None)
    /\ UNCHANGED <<gen_manager, main_pc, json_file, calls>>

PersistNext ==
    \/ initialize_map
    \/ calls < MaxPersistCalls /\ \E c \in InputCoords : explore_hex(c)
    \/ calls < MaxPersistCalls /\ \E c \in InputCoords : navigate_to_hex(c)
    \/ calls < MaxPersistCalls /\ rest_and_scout
    \/ save_to_json
    \/ load_from_json
    \/ WorkerNext

PersistSpec == Init /\ [][PersistNext]_vars

\* load_from_json of the saved file after it was damaged: the call raises,
\* which load_map_dialog catches and reports; unless the file is not JSON the
\* dictionary was cleared, so the threads' Hex objects are no longer the map's
load_damaged(defect) ==
    /\ MapCalled
    /\ ~gen_manager.generating
    /\ json_file # << >>
    /\ LET after == LoadFromJsonRaises(json_file[Len(json_file)], hexes,
                                       current_position, defect)
       IN  /\ current_position' = after.current_position
           /\ hexes' = after.hexes
           /\ ret' = Ret("load_from_json", defect, "False", after.exception)
    /\ threads' = [w \in DOMAIN threads |->
                     IF threads[w].orphaned \/ defect = "not_json" THEN threads[w]
                     ELSE [threads[w] EXCEPT
                             !.orphaned = TRUE,
                             !.hex_names = [i \in DOMAIN threads[w].items |->
                                              HexName(hexes[threads[w].items[i]])]]]
    /\ UNCHANGED <<travel_system, gen_manager, main_pc, json_file>>

DamagedNext ==
    \/ PersistNext
    \/ \E defect \in Defects : load_damaged(defect)

DamagedSpec == Init /\ [][DamagedNext]_vars

(***************************************************************************)
(* The ledger through the file, on doubles: a party on foot has rested and *)
(* moved, its map is saved, and the file is loaded into the same HexMap or *)
(* into one just constructed.                                              *)
(***************************************************************************)
\* the ledgers that n calls of move_to_hex leave, starting from those of from
RECURSIVE Moved(_, _)
Moved(from, n) ==
    IF n = 0 THEN from
    ELSE LET before == Moved(from, n - 1)
         IN  before \cup
             {MoveToHex(ts, terrain, consume) :
                 ts \in before,
                 terrain \in {x \in Terrains : \E y \in before : CanMoveTo(y, x)},
                 consume \in BOOLEAN}

\* the ledgers a party on foot has after toggle_navigator or not, a
\* change_pace, rest and up to MaxMoves moves it can make; rest has stored
\* the integer max_movement and set is_resting, the moves subtract costs
\* that are multiples of 0.5: movement_points is the double the model has
SavedLedgers ==
    LET rested == {Rest(ChangePace(ts, pace)) :
                      ts \in {NewTravelSystem, ToggleNavigator(NewTravelSystem)},
                      pace \in Paces}
    IN  {ts \in Moved(rested, MaxMoves) : ts.movement_points >= 0}

LedgerFileInit ==
    /\ travel_system \in SavedLedgers
    /\ hexes = << >>
    /\ current_position = <<0, 0, 0>>
    /\ gen_manager = NewGenerationManager
    /\ threads = << >>
    /\ main_pc = "idle"
    /\ ret = NoCall
    /\ calls = 0
    /\ json_file = << >>

save_ledger ==
    /\ json_file = << >>
    /\ json_file' = <<SaveToJson(current_position, hexes, travel_system)>>
    /\ ret' = Ret("save_to_json", None, None, None)
    /\ UNCHANGED <<travel_system, hexes, current_position, gen_manager, threads, main_pc, calls>>

\* load_from_json into the HexMap that saved (into_new = FALSE) or into a
\* HexMap just constructed, whose ledger is a TravelSystem()
load_ledger(into_new) ==
    /\ json_file # << >>
    /\ ret.op = "save_to_json"
    /\ LET target == IF into_new THEN NewTravelSystem ELSE travel_system
           after  == LoadFromJson(json_file[Len(json_file)], target)
       IN  /\ current_position' = after.current_position
           /\ hexes' = after.hexes
           /\ travel_system' = after.travel_system
    /\ ret' = Ret("load_from_json", None, None, None)
    /\ UNCHANGED <<gen_manager, threads, main_pc, json_file, calls>>

LedgerFileNext ==
    \/ save_ledger
    \/ \E into_new \in BOOLEAN : load_ledger(into_new)

LedgerFileSpec == LedgerFileInit /\ [][LedgerFileNext]_vars

(***************************************************************************)
(* The ledger late in a journey: the party has rested for days, has made   *)
(* forced marches on foot, has changed its transport and has marched       *)
(* again; then the caller rests and makes forced marches.                  *)
(***************************************************************************)
\* the ledger after n calls of rest
RECURSIVE Rests(_, _)
Rests(ts, n) == IF n = 0 THEN ts ELSE Rest(Rests(ts, n - 1))

\* the ledgers that up to n calls of forced_march leave, starting from
\* those of from, whatever the rolls for exhaustion give
RECURSIVE Marches(_, _)
Marches(from, n) ==
    IF n = 0 THEN from
    ELSE LET before == Marches(from, n - 1)
         IN  before \cup
             {ForcedMarch(ts, exhausted) :
                 ts \in {x \in before : RequiresRest(x.current_transport)},
                 exhausted \in BOOLEAN}

\* with no rest, with all supplies but one unit eaten, and with none left
JourneyLedgers ==
    LET rested  == {Rests(NewTravelSystem, n) : n \in {0, MaxRests - 1, MaxRests}}
        on_foot == Marches(rested, MaxMarches)
        changed == {ChangeTransport(ts, transport) :
                       ts \in on_foot, transport \in Transports}
    IN  Marches(changed, MaxMarches \div 2)

JourneyInit ==
    /\ travel_system \in JourneyLedgers
    /\ hexes = << >>
    /\ current_position = <<0, 0, 0>>
    /\ gen_manager = NewGenerationManager
    /\ threads = << >>
    /\ main_pc = "idle"
    /\ ret = NoCall
    /\ calls = 0
    /\ json_file = << >>

JourneyNext ==
    \/ rest
    \/ forced_march

JourneySpec == JourneyInit /\ [][JourneyNext]_vars

(***************************************************************************)
(* Properties of the travel ledger, checked under TravelSpec.              *)
(***************************************************************************)
\* a step that is a call of one of the operations ops on the ledger
LedgerCall(ops) == calls' = calls + 1 /\ ret'.op \in ops

\* C1: in every state reachable from a fresh TravelSystem by move_to_hex,
\* rest, forced_march, change_pace, change_transport and the toggles,
\* movement_points >= 0.
C1_MovementPointsNonNegative == travel_system.movement_points >= 0

\* a successful move that spends the last movement point
C1_Witness ==
    /\ ret.op = "move_to_hex"
    /\ ret.value = "True"
    /\ travel_system.movement_points = 0

\* C6: change_pace, change_transport and toggle_navigator, with no rest
\* immediately before, keep the fraction movement_points / max_movement.
C6_FractionPreserved ==
    [][(/\ LedgerCall({"change_pace", "change_transport", "toggle_navigator"})
        /\ ret.op # "rest")
       => travel_system'.movement_points * travel_system.max_movement
            = travel_system.movement_points * travel_system'.max_movement]_vars

\* max_movement for the transport, the pace and the navigator flag of ts
MaxMovementFor(ts) ==
    LET base == BaseHexesPer8h(ts.current_transport, ts.current_pace)
    IN  IF ts.has_navigator THEN (base * 11) \div 10 ELSE base

\* C7: immediately after rest(), movement_points = max_movement and
\* hours_traveled = 0, max_movement being the value for the current
\* transport, pace and navigator flag.
C7_RestRestores ==
    ret.op = "rest" =>
        /\ travel_system.movement_points = travel_system.max_movement * CostScale
        /\ travel_system.hours_traveled = Zero
        /\ travel_system.max_movement = MaxMovementFor(travel_system)

\* a rest taken on a horse with a navigator in the party
C7_Witness ==
    /\ ret.op = "rest"
    /\ travel_system.current_transport = "horse"
    /\ travel_system.has_navigator
    /\ travel_system.movement_points = 13 * CostScale

\* whether the transport's modifier for the terrain is the impassable sentinel
Impassable(transport, terrain) ==
    TerrainModifier40(transport, terrain) >= 40 * IMPASSABLE

\* C8: with a ranger on foot, get_movement_cost of a terrain passable on
\* foot is min(base cost x modifier, 1.0), the modifier being 1.0, or 0.5 for
\* the favored terrain; and move_to_hex deducts at most 1 movement point.
C8_RangerOnFootCap ==
    /\ [](travel_system.has_ranger /\ travel_system.current_transport = "on_foot"
          => \A terrain \in Terrains :
               ~Impassable("on_foot", terrain) =>
                  /\ GetMovementCost(travel_system, terrain)
                       = Min(MovementCost2(terrain)
                               * (IF terrain = travel_system.favored_terrain
                                  THEN 20 ELSE 40),
                             CostScale)
                  /\ GetMovementCost(travel_system, terrain) <= CostScale)
    /\ [][(/\ LedgerCall({"move_to_hex"})
           /\ travel_system.has_ranger
           /\ travel_system.current_transport = "on_foot")
          => travel_system.movement_points - travel_system'.movement_points
               <= CostScale]_vars

\* a ranger on foot has entered mountains (base cost 3) for 1 point
C8_Witness ==
    /\ ret.op = "move_to_hex"
    /\ ret.arg = "mountains"
    /\ ret.value = "True"
    /\ travel_system.has_ranger
    /\ travel_system.current_transport = "on_foot"
    /\ travel_system.movement_points = 7 * CostScale

\* C9: a terrain whose modifier for the current transport is the impassable
\* sentinel cannot be entered, whatever movement_points is and with or
\* without a ranger: can_move_to is false, and move_to_hex returns False and
\* changes nothing.
C9_ImpassableNeverEntered ==
    /\ [](\A terrain \in Terrains :
            Impassable(travel_system.current_transport, terrain)
              => ~CanMoveTo(travel_system, terrain))
    /\ [][(/\ LedgerCall({"move_to_hex"})
           /\ Impassable(travel_system.current_transport, ret'.arg))
          => /\ ret'.value = "False"
             /\ travel_system' = travel_system]_vars

\* a ranger on foot with points piled up by forced marches is refused water
C9_Witness ==
    /\ ret.op = "move_to_hex"
    /\ ret.arg = "water"
    /\ ret.value = "False"
    /\ travel_system.has_ranger
    /\ travel_system.current_transport = "on_foot"
    /\ travel_system.movement_points >= 12 * CostScale

\* the modifier as halved for a ranger's favored terrain
HalvedModifier40(ts, terrain) ==
    IF ts.has_ranger /\ terrain = ts.favored_terrain
    THEN TerrainModifier40(ts.current_transport, terrain) \div 2
    ELSE TerrainModifier40(ts.current_transport, terrain)

\* C10 as stated: for a ranger's favored terrain the modifier compared with
\* the impassable sentinel is the halved one, so the cost is the sentinel
\* exactly when the halved modifier reaches it.
C10_HalvedBeforeCheck ==
    \A terrain \in Terrains :
        (travel_system.has_ranger /\ terrain = travel_system.favored_terrain)
          => (GetMovementCost(travel_system, terrain) >= IMPASSABLE * CostScale
                <=> HalvedModifier40(travel_system, terrain) >= 40 * IMPASSABLE)

\* C10 as amended: the modifier compared with the impassable sentinel is the
\* transport's own, not yet halved; the halving for a ranger's favored terrain
\* comes after the check and prices a passable terrain only.
C10_CheckBeforeHalving ==
    \A terrain \in Terrains :
        /\ GetMovementCost(travel_system, terrain) >= IMPASSABLE * CostScale
             <=> Impassable(travel_system.current_transport, terrain)
        /\ (/\ travel_system.has_ranger
            /\ terrain = travel_system.favored_terrain
            /\ ~Impassable(travel_system.current_transport, terrain))
           => GetMovementCost(travel_system, terrain)
                = LET cost == MovementCost2(terrain)
                                * (TerrainModifier40(travel_system.current_transport,
                                                     terrain) \div 2)
                  IN  IF travel_system.current_transport = "on_foot"
                      THEN Min(cost, CostScale) ELSE cost

\* a ranger on foot whose favored terrain is water has been refused water
C10_Witness ==
    /\ ret.op = "move_to_hex"
    /\ ret.arg = "water"
    /\ ret.value = "False"
    /\ travel_system.has_ranger
    /\ travel_system.favored_terrain = "water"
    /\ travel_system.current_transport = "on_foot"

\* C11: in every reachable state max_movement is
\* base_hexes_per_8h(current_transport, current_pace) times 1.1 with a
\* navigator, times 1.0 without (compared in tenths).
C11_MaxMovementExact ==
    travel_system.max_movement * 10 =
        BaseHexesPer8h(travel_system.current_transport, travel_system.current_pace)
            * (IF travel_system.has_navigator THEN 11 ELSE 10)

\* C19: forced_march() on a transport that does not require rest returns
\* False and changes no field of the ledger; on a transport that requires
\* rest it returns True, adds exactly 2 to movement_points and 2 to
\* hours_traveled, and raises an exhaustion counter, by 1, only if
\* hours_traveled was >= 8 before the call: mount_exhaustion when the
\* transport is exhaustion-resistant, exhaustion_level otherwise, never both.
C19_ForcedMarch ==
    [][LedgerCall({"forced_march"}) =>
         IF ~RequiresRest(travel_system.current_transport)
         THEN /\ ret'.value = "False"
              /\ travel_system' = travel_system
         ELSE LET mount == travel_system'.mount_exhaustion - travel_system.mount_exhaustion
                  party == travel_system'.exhaustion_level - travel_system.exhaustion_level
              IN  /\ ret'.value = "True"
                  /\ travel_system'.movement_points =
                         travel_system.movement_points + 2 * CostScale
                  /\ travel_system'.hours_traveled =
                         FracAdd(travel_system.hours_traveled, Frac(2, 1))
                  /\ mount \in {0, 1} /\ party \in {0, 1} /\ mount + party <= 1
                  /\ mount + party = 1 => FracGE(travel_system.hours_traveled, 8)
                  /\ mount = 1 => ExhaustionResistant(travel_system.current_transport)
                  /\ party = 1 => ~ExhaustionResistant(travel_system.current_transport)]_vars

\* a forced march after eight hours on horse has exhausted the mount
C19_Witness ==
    /\ ret.op = "forced_march"
    /\ ret.value = "True"
    /\ travel_system.current_transport = "horse"
    /\ travel_system.mount_exhaustion = 1
    /\ travel_system.exhaustion_level = 0
    /\ FracGE(travel_system.hours_traveled, 10)

\* C20: rest() increments days_traveled by exactly 1, decrements
\* exhaustion_level and mount_exhaustion by 1 each with floor 0, decrements
\* supplies by exactly 1 with floor 0, and leaves pace, transport, trait
\* flags and favored terrain unchanged.
C20_Rest ==
    [][LedgerCall({"rest"}) =>
         /\ travel_system'.days_traveled = travel_system.days_traveled + 1
         /\ travel_system'.exhaustion_level = Max(0, travel_system.exhaustion_level - 1)
         /\ travel_system'.mount_exhaustion = Max(0, travel_system.mount_exhaustion - 1)
         /\ travel_system'.supplies = Max(0, travel_system.supplies - SupplyScale)
         /\ travel_system'.current_pace = travel_system.current_pace
         /\ travel_system'.current_transport = travel_system.current_transport
         /\ travel_system'.has_ranger = travel_system.has_ranger
         /\ travel_system'.has_navigator = travel_system.has_navigator
         /\ travel_system'.has_outlander = travel_system.has_outlander
         /\ travel_system'.favored_terrain = travel_system.favored_terrain]_vars

\* a rest taken after the supplies ran out: the ten units went with the
\* first ten rests, and the counters stay at their floor
C20_Witness ==
    /\ ret.op = "rest"
    /\ travel_system.days_traveled = MaxRests + 2
    /\ travel_system.supplies = 0
    /\ travel_system.mount_exhaustion = 0
    /\ travel_system.exhaustion_level = 0

\* C21: in every state reachable from a fresh ledger by move_to_hex, rest,
\* forced_march and resupply(days) with any integer days,
\* 0 <= supplies <= 30.
C21_SuppliesInRange ==
    /\ 0 <= travel_system.supplies
    /\ travel_system.supplies <= 30 * SupplyScale

\* C24: on a boat with movement_points = max_movement, at any pace and with
\* or without navigator, can_move_to("water") is true and move_to_hex("water")
\* returns True.
C24_BoatCrossesWater ==
    [][/\ travel_system.current_transport = "boat"
       /\ travel_system.movement_points = travel_system.max_movement * CostScale
       => /\ CanMoveTo(travel_system, "water")
          /\ LedgerCall({"move_to_hex"}) /\ ret'.arg = "water"
             => ret'.value = "True"]_vars

\* C27: change_pace, change_transport and toggle_navigator keep
\* movement_points <= max_movement: if it holds before the call, it holds
\* after it.
C27_SettersKeepCeiling ==
    [][/\ LedgerCall({"change_pace", "change_transport", "toggle_navigator"})
       /\ travel_system.movement_points <= travel_system.max_movement * CostScale
       => travel_system'.movement_points <= travel_system'.max_movement * CostScale]_vars

\* the integer triples around c that can be at distance radius or less
Box(c, radius) ==
    {<<q, r, s>> : q \in (c[1] - radius - 1)..(c[1] + radius + 1),
                   r \in (c[2] - radius - 1)..(c[2] + radius + 1),
                   s \in (c[3] - radius - 1)..(c[3] + radius + 1)}

\* the hex coordinates at distance radius or less from c
Disc(c, radius) ==
    {d \in Box(c, radius) : d[1] + d[2] + d[3] = 0 /\ distance(c, d) <= radius}

\* C23: for every centre coordinate and every radius >= 0 the list returned
\* by get_hexes_within_radius has 3*radius^2 + 3*radius + 1 entries, no entry
\* twice, every entry with q + r + s = 0, and its entries are exactly the
\* coordinates at hex distance radius or less from the centre.
C23_WithinRadius ==
    \A radius \in 0..(MaxRadius + 1) :
        ret.op = "get_hexes_within_radius" /\ ret.arg = ToString(radius) =>
            /\ Len(ret.value) = 3 * radius * radius + 3 * radius + 1
            /\ Cardinality(Range(ret.value)) = Len(ret.value)
            /\ \A d \in Range(ret.value) : d[1] + d[2] + d[3] = 0
            /\ Range(ret.value) = Disc(current_position, radius)

\* The 19 coordinates around an off-origin centre were returned.
C23_Witness ==
    /\ ret.op = "get_hexes_within_radius" /\ ret.arg = "2"
    /\ current_position = <<2, -3, 1>>
    /\ Len(ret.value) = 19
    /\ <<4, -5, 1>> \in Range(ret.value)

\* C22: change_pace with a value other than slow, normal, fast,
\* change_transport with a value that is not a transport mode (which returns
\* False) and set_favored_terrain with a value that is neither a terrain nor
\* None leave every field of the ledger as it was.
C22_InvalidValueNoOp ==
    [][/\ LedgerCall({"change_pace"}) /\ ret'.arg \notin Paces
          => travel_system' = travel_system
       /\ LedgerCall({"change_transport"}) /\ ret'.arg \notin Transports
          => travel_system' = travel_system /\ ret'.value = "False"
       /\ LedgerCall({"set_favored_terrain"}) /\ ret'.arg \notin Terrains \cup {None}
          => travel_system' = travel_system]_vars

\* An unknown terrain was passed to a ledger that had changed pace, mounted a
\* horse and chosen a favoured terrain before.
C22_Witness ==
    /\ ret.op = "set_favored_terrain" /\ ret.arg = "lava"
    /\ travel_system.favored_terrain = "forest"
    /\ travel_system.current_pace = "fast"
    /\ travel_system.current_transport = "horse"


(***************************************************************************)
(* Properties of the map and of the generation manager, checked under      *)
(* Spec.                                                                   *)
(***************************************************************************)
\* a step that is a call of op on the map
MapCall(op) == calls' = calls + 1 /\ ret'.op = op

\* what a failing call must leave alone: the position, the ledger's points,
\* hours and supplies, the set of tiles and every tile's explored flag
LeftAlone ==
    /\ current_position' = current_position
    /\ travel_system'.movement_points = travel_system.movement_points
    /\ travel_system'.hours_traveled = travel_system.hours_traveled
    /\ travel_system'.supplies = travel_system.supplies
    /\ DOMAIN hexes' = DOMAIN hexes
    /\ \A d \in DOMAIN hexes : hexes'[d].explored = hexes[d].explored

\* the call is refused with message msg and changes nothing
Refused(msg) == ret'.value = "False" /\ ret'.msg = msg /\ LeftAlone

\* C2: a failing explore_hex or navigate_to_hex call (tile absent, tile
\* still generating, movement rejected, navigate target not explored)
\* returns (False, message) and leaves the position, the movement points,
\* the hours, the supplies, the set of tiles and every explored flag as they
\* were; explore_hex on a tile with generating = TRUE fails with the
\* still-generating message.  (Each case reads: a step that is not the
\* refusal with the case's message is not a call on a tile of that case.)
C2_FailingCallsChangeNothing ==
    [][/\ MapCall("explore_hex") =>
            /\ ret'.value = "False" => ret'.msg # None /\ LeftAlone
            /\ ~Refused("Hex doesn't exist!") =>
                 ~\E c \in InputCoords :
                     /\ c \notin DOMAIN hexes
                     /\ explore_hex(c)
            /\ ~Refused("Still generating...") =>
                 ~\E c \in InputCoords :
                     /\ c \in DOMAIN hexes /\ hexes[c].generating
                     /\ explore_hex(c)
            /\ \A terrain \in Terrains :
                 ~Refused(NeedMessage(terrain)) =>
                   ~\E c \in InputCoords :
                       /\ c \in DOMAIN hexes /\ ~hexes[c].generating
                       /\ hexes[c].terrain = terrain
                       /\ ~CanMoveTo(travel_system, terrain)
                       /\ explore_hex(c)
       /\ MapCall("navigate_to_hex") =>
            /\ ret'.value = "False" => ret'.msg # None /\ LeftAlone
            /\ ~Refused("Cannot navigate to unexplored hex!") =>
                 ~\E c \in InputCoords :
                     /\ ~(c \in DOMAIN hexes /\ hexes[c].explored)
                     /\ navigate_to_hex(c)
            /\ ~Refused("Not enough movement points!") =>
                 ~\E c \in InputCoords :
                     /\ c \in DOMAIN hexes /\ hexes[c].explored
                     /\ ~CanMoveTo(travel_system, hexes[c].terrain)
                     /\ navigate_to_hex(c)]_vars

\* explore_hex was refused on a tile whose description is being generated
C2_Witness ==
    /\ ret.op = "explore_hex"
    /\ ret.value = "False"
    /\ ret.msg = "Still generating..."
    /\ \E c \in InputCoords : c \in DOMAIN hexes /\ hexes[c].generating

\* the distance between two hexes: the largest of the three coordinate
\* differences
HexDistance(a, b) ==
    Max(Max(Abs(a[1] - b[1]), Abs(a[2] - b[2])), Abs(a[3] - b[3]))

\* what a successful explore_hex(c) leaves behind
Explored(c) ==
    /\ travel_system'.movement_points =
          travel_system.movement_points
            - GetMovementCost(travel_system, hexes[c].terrain)
    /\ hexes'[c].explored
    /\ current_position' = c
    /\ \A n \in Range(get_neighbors(c)) :
          n \in DOMAIN hexes' /\ hexes'[n].visible
    /\ DOMAIN hexes' = DOMAIN hexes \cup Range(get_neighbors(c))
    /\ \A d \in DOMAIN hexes' :
          hexes'[d].distance_from_current = HexDistance(c, d)

\* C12: a successful explore_hex(c) deducts the terrain's movement cost,
\* sets the tile's explored flag and current_position to c, leaves the six
\* neighbours of c in the map with visible = TRUE (the missing ones are
\* created), and every tile's distance_from_current is its hex distance to c.
\* The step is the call explore_hex(c) for the c that is the new position.
C12_ExploreEffect ==
    [][MapCall("explore_hex") /\ ret'.value = "True" =>
         /\ current_position' \in InputCoords
         /\ explore_hex(current_position')
         /\ Explored(current_position')]_vars

\* a successful explore_hex away from the origin that created tiles
C12_Witness ==
    /\ ret.op = "explore_hex"
    /\ ret.value = "True"
    /\ current_position # <<0, 0, 0>>
    /\ hexes[current_position].explored
    /\ Cardinality(DOMAIN hexes) > 7

\* C13: navigate_to_hex succeeds only for a tile that exists, is explored
\* and passes can_move_to; it never adds a tile, on success or on failure;
\* on an absent or unexplored target it fails with the not-explored message
\* and changes nothing.
C13_NavigateFrame ==
    [][MapCall("navigate_to_hex") =>
         /\ DOMAIN hexes' = DOMAIN hexes
         /\ ret'.value = "True" =>
              \A c \in InputCoords : navigate_to_hex(c) =>
                  /\ c \in DOMAIN hexes
                  /\ hexes[c].explored
                  /\ CanMoveTo(travel_system, hexes[c].terrain)
         /\ ~(/\ ret'.value = "False"
              /\ ret'.msg = "Cannot navigate to unexplored hex!"
              /\ UNCHANGED <<travel_system, hexes, current_position,
                             gen_manager, threads>>) =>
              ~\E c \in InputCoords :
                  /\ ~(c \in DOMAIN hexes /\ hexes[c].explored)
                  /\ navigate_to_hex(c)]_vars

\* the party has navigated back to the origin from a tile it had explored
C13_Witness ==
    /\ ret.op = "navigate_to_hex"
    /\ ret.value = "True"
    /\ current_position = <<0, 0, 0>>
    /\ \E c \in DOMAIN hexes : c # <<0, 0, 0>> /\ hexes[c].explored

\* the ledger has been rested: the movement is restored, the hours are
\* reset and a day is added
Rested ==
    /\ travel_system'.movement_points = travel_system'.max_movement * CostScale
    /\ travel_system'.hours_traveled = Zero
    /\ travel_system'.days_traveled = travel_system.days_traveled + 1

\* every coordinate within distance 2 of the position is a visible tile, and
\* the tiles that existed keep their terrain, description and explored flag
Scouted ==
    /\ \A c \in Range(get_hexes_within_radius(current_position, 2)) :
          c \in DOMAIN hexes' /\ hexes'[c].visible
    /\ Cardinality(Range(get_hexes_within_radius(current_position, 2))) = 19
    /\ \A c \in Range(get_hexes_within_radius(current_position, 2)) :
          HexDistance(current_position, c) <= 2
    /\ \A c \in DOMAIN hexes :
          /\ c \in DOMAIN hexes'
          /\ hexes'[c].terrain = hexes[c].terrain
          /\ hexes'[c].description = hexes[c].description
          /\ hexes'[c].explored = hexes[c].explored

\* the tiles the step created are the batch of the manager, of type gen_type,
\* with a thread to work on it
Enqueued(gen_type) ==
    LET created == DOMAIN hexes' \ DOMAIN hexes
    IN  created # {} =>
          /\ Range(gen_manager'.hexes_to_generate) = created
          /\ gen_manager'.generation_type = gen_type
          /\ gen_manager'.generating
          /\ \E w \in DOMAIN threads' \ DOMAIN threads :
                threads'[w].items = gen_manager'.hexes_to_generate

\* C14: after rest_and_scout() the ledger has been rested, every one of the
\* 19 coordinates within distance 2 of current_position is a tile with
\* visible = TRUE, the tiles that existed keep their terrain, description
\* and explored flag, and the new tiles are one batch of type "resting".
C14_RestAndScoutEffect ==
    [][MapCall("rest_and_scout") => Rested /\ Scouted /\ Enqueued("resting")]_vars

\* C15: after initialize_map() on an empty map the map holds exactly 7
\* tiles: the origin with explored = TRUE and visible = TRUE, its six
\* neighbours with visible = TRUE and explored = FALSE; all 7 carry the
\* placeholder with generating = TRUE and are one batch of type "scouting".
C15_InitializeMapEffect ==
    [][initialize_map /\ DOMAIN hexes = {} =>
         /\ DOMAIN hexes' = {<<0, 0, 0>>} \cup Range(get_neighbors(<<0, 0, 0>>))
         /\ Cardinality(DOMAIN hexes') = 7
         /\ hexes'[<<0, 0, 0>>].explored /\ hexes'[<<0, 0, 0>>].visible
         /\ \A n \in Range(get_neighbors(<<0, 0, 0>>)) :
               hexes'[n].visible /\ ~hexes'[n].explored
         /\ \A c \in DOMAIN hexes' :
               hexes'[c].description = Placeholder /\ hexes'[c].generating
         /\ Enqueued("scouting")
         /\ gen_manager'.total_hexes = 7]_vars

\* the map right after initialize_map, no description generated yet
C15_Witness ==
    /\ ret.op = "initialize_map"
    /\ Cardinality(DOMAIN hexes) = 7
    /\ \A c \in DOMAIN hexes : hexes[c].generating
    /\ gen_manager.generating

\* the maps that one more call builds from the map of this state, one for
\* each outcome of the random draws of _create_simple_hex: initialize_map on
\* the empty map, explore_hex of a tile it accepts on any other
BuiltMaps ==
    IF DOMAIN hexes = {}
    THEN {InitializeMap(hexes, gen_manager, threads, draw).hexes :
             draw \in DrawSequences}
    ELSE {ExploreHex(hexes, travel_system, gen_manager, threads, c, FALSE, draw).hexes :
             c \in {x \in InputCoords :
                       ExploreHexFailure(hexes, travel_system, x) = None},
             draw \in DrawSequences}

\* C18: the terrain of a tile is a function of the seed and the coordinate:
\* two maps built with the same seed (the HexMap keeps its seed in
\* terrain_seed and never reads it, so every map of the model has the same)
\* have the same terrain at every coordinate that is a tile of both.
C18_TerrainBySeedAndCoordinate ==
    \A m1, m2 \in BuiltMaps :
        \A c \in DOMAIN m1 \cap DOMAIN m2 : m1[c].terrain = m2[c].terrain

\* the worker threads that are inside an item
Processing == {w \in DOMAIN threads : threads[w].pc = "item"}

\* C3: at most one batch is in flight: no two worker threads are processing
\* items at the same moment.
C3_SingleWorker == Cardinality(Processing) <= 1

\* thread w begins an item in this step
BeginsItem(w) ==
    /\ threads'[w].pc = "item"
    /\ threads[w].pc # "item" \/ threads'[w].idx # threads[w].idx

\* C4: once cancel() has been called on a running batch, the worker of that
\* batch begins no item it had not already begun, whatever the caller does
\* afterwards.
C4_CancelledBeginsNothing ==
    [][\A w \in DOMAIN threads : threads[w].cancelled => ~BeginsItem(w)]_vars

\* the map is well formed: the party stands on an explored tile, every key is
\* a cube coordinate and the coordinate stored in its tile, and every explored
\* tile has its six neighbours
WellFormed(hx, position) ==
    /\ position \in DOMAIN hx /\ hx[position].explored
    /\ \A c \in DOMAIN hx :
          /\ c[1] + c[2] + c[3] = 0
          /\ c = <<hx[c].q, hx[c].r, hx[c].s>>
          /\ hx[c].explored => Range(get_neighbors(c)) \subseteq DOMAIN hx

\* C28: initialize_map leaves a well-formed map (current_position an existing
\* explored tile, every key with q + r + s = 0 and equal to its tile's stored
\* coordinates, every explored tile with all six neighbours), and every step
\* taken from a well-formed map, explore_hex, navigate_to_hex and
\* rest_and_scout among them, leaves it well formed.
C28_MapWellFormed ==
    [][initialize_map \/ WellFormed(hexes, current_position)
         => WellFormed(hexes', current_position')]_vars

\* The party explored a neighbour of the origin and walked back: two explored
\* tiles among the ten of the map, the map well formed.
C28_Witness ==
    /\ ret.op = "navigate_to_hex" /\ ret.value = "True"
    /\ current_position = <<0, 0, 0>>
    /\ Cardinality({c \in DOMAIN hexes : hexes[c].explored}) = 2
    /\ Cardinality(DOMAIN hexes) = 10
    /\ WellFormed(hexes, current_position)

\* C29: every successful explore_hex or navigate_to_hex moves the party to a
\* coordinate at hex distance exactly 1 from the position it had before.
C29_MovesToAdjacent ==
    [][/\ MapCall("explore_hex") \/ MapCall("navigate_to_hex")
       /\ ret'.value = "True"
       => distance(current_position, current_position') = 1]_vars

\* the manager is idle: is_generating() is false, no cancel() is waiting in
\* its join and no worker thread is still running
ManagerIdle ==
    /\ ~gen_manager.generating
    /\ main_pc = "idle"
    /\ \A w \in DOMAIN threads : ~Alive(threads, w)

\* C25: whenever the generation manager is idle, no tile of the map has
\* generating = TRUE.
C25_IdleLeavesNothingPending ==
    ManagerIdle => \A c \in DOMAIN hexes : ~hexes[c].generating

\* C26: in every state of the generation manager reachable by interleavings
\* of start_generation, cancel and worker steps, 0 <= completed_hexes <=
\* total_hexes and 0 <= progress <= 1.
C26_ProgressConsistent ==
    /\ 0 <= gen_manager.completed_hexes
    /\ gen_manager.completed_hexes <= gen_manager.total_hexes
    /\ 0 <= gen_manager.progress.n
    /\ gen_manager.progress.n <= gen_manager.progress.d

(***************************************************************************)
(* The map without cancel and with worker threads that are scheduled       *)
(* fairly: a thread that can take its step takes it.                       *)
(***************************************************************************)
NoCancelNext ==
    \/ initialize_map
    \/ \E c \in InputCoords : explore_hex(c)
    \/ \E c \in InputCoords : navigate_to_hex(c)
    \/ rest_and_scout
    \/ WorkerNext

FairSpec == Init /\ [][NoCancelNext]_vars /\ WF_vars(WorkerNext)

\* the same map, with no assumption on the scheduling of the threads
WalkSpec == Init /\ [][NoCancelNext]_vars

\* the coordinates a tile can be created at
Universe == Range(get_hexes_within_radius(<<0, 0, 0>>, InputRadius + 2))

\* the tile at c has its description
Generated(c) ==
    /\ c \in DOMAIN hexes
    /\ ~hexes[c].generating
    /\ hexes[c].description # Placeholder

\* C5: under a fairly scheduled worker and with no cancel, every tile that
\* was created eventually has generating = FALSE and a description other
\* than the placeholder.
C5_EveryTileGenerated ==
    \A c \in Universe : (c \in DOMAIN hexes) ~> Generated(c)

(***************************************************************************)
(* Properties of saving and loading, checked under PersistSpec.            *)
(***************************************************************************)
\* every tile is still a tile after the step, with its terrain, and a tile
\* that was explored still is
TilesKept ==
    \A c \in DOMAIN hexes :
        /\ c \in DOMAIN hexes'
        /\ hexes'[c].terrain = hexes[c].terrain
        /\ hexes[c].explored => hexes'[c].explored

\* the tiles after the step are those of the file, each with the terrain
\* and the explored flag the file has for it
TilesOfFile ==
    LET map_data == json_file[Len(json_file)]
    IN  /\ DOMAIN hexes' = {<<d.q, d.r, d.s>> : d \in map_data.hexes}
        /\ \A d \in map_data.hexes :
              /\ hexes'[<<d.q, d.r, d.s>>].terrain = d.terrain
              /\ hexes'[<<d.q, d.r, d.s>>].explored = d.explored

C30_FailedLoadKeepsMap ==
    [][(\E defect \in Defects : load_damaged(defect)) =>
          /\ hexes' = hexes
          /\ current_position' = current_position
          /\ travel_system' = travel_system]_vars

\* the map and the ledger are those of the file: the position, the tiles
\* with terrain, explored, visible and description, and every field of the
\* ledger that is saved, the double movement_points included, with the
\* max_movement derived from them
SameAsFile ==
    LET map_data == json_file[Len(json_file)]
        data     == map_data.travel_data
    IN  /\ current_position = map_data.current_position
        /\ {ToDict(hexes[c]) : c \in DOMAIN hexes} = map_data.hexes
        /\ GetSaveData(travel_system) = data
        /\ travel_system.max_movement =
               IF data.has_navigator
               THEN (BaseHexesPer8h(data.transport, data.pace) * 11) \div 10
               ELSE BaseHexesPer8h(data.transport, data.pace)

\* C17: save_to_json followed by load_from_json reproduces the position, the
\* tile set with terrain, explored, visible and description of every tile,
\* and the travel ledger with its max_movement.
C17_RoundTrip == ret.op = "load_from_json" => SameAsFile

====
